---- MODULE Spec2Model ----
(***************************************************************************)
(* Model of the Meraki guest-PSK update tool (src/app).                    *)
(*                                                                         *)
(* One process runs one CLI command.  The commands modelled are            *)
(*   - run_psk_change            (main.py), which runs the tag-driven bulk *)
(*     update MerakiOps.update_ssid_by_num_for_tagged_networks and then    *)
(*     funcs.generate_reports;                                             *)
(*   - generate_reports called directly with arbitrary lists;              *)
(*   - update_ssid_psk           (main.py), the single-network update by   *)
(*     SSID name or number.                                                *)
(* The vendor dashboard client is the environment: what it returns and     *)
(* whether a call raises are chosen nondeterministically at each call, and *)
(* every call issued is appended to the log "calls".                       *)
(***************************************************************************)
EXTENDS Integers, Sequences, FiniteSets, TLC

\* ---------------------------------------------------------------- bounds
MaxNets == 3          \* longest network list the dashboard returns
NumSlots == 2         \* SSID slots of the single network of update_ssid_psk
MaxList == 2          \* longest list handed to generate_reports directly

\* ------------------------------------------------------ program constants
GuestWirelessTag == "MX-GuestPSK"      \* meraki_api.py:150
GuestApplianceTag == "MXW-GuestPSK"    \* meraki_api.py:161
DefaultMrSsidNumber == 2               \* meraki_api.py:132
DefaultMxSsidNumber == 2               \* meraki_api.py:132

None == "None"
NoNumber == -1       \* None where the code holds an SSID number
NoNetwork == 0       \* None where the code holds a network id

\* tag lists a network of the organization may carry: any choice of the two
\* guest tags, or two near misses (another case, a longer tag)
TagSets ==
    (SUBSET {GuestWirelessTag, GuestApplianceTag})
        \cup {{"mx-guestpsk", "MXW-GuestPSK2"}}
PSKs == {"Summer2024!", "NewPass123"}
Seconds == {0, 1}                     \* instants of the wall clock, in seconds

\* a network as returned by getOrganizationNetworks; hasTags = FALSE is a
\* record without the 'tags' key
NetworkKinds ==
    [hasTags : {TRUE}, tags : TagSets]
        \cup [hasTags : {FALSE}, tags : {{}}]

RECURSIVE SeqsUpTo(_, _)
SeqsUpTo(S, n) ==
    IF n = 0 THEN {<<>>}
    ELSE LET shorter == SeqsUpTo(S, n - 1)
         IN shorter \cup {Append(s, x) : s \in {t \in shorter : Len(t) = n - 1}, x \in S}

\* network i of the list gets id i and name i
NetworkLists ==
    {[i \in 1..Len(ks) |-> [id |-> i, name |-> i, hasTags |-> ks[i].hasTags, tags |-> ks[i].tags]]
        : ks \in SeqsUpTo(NetworkKinds, MaxNets)}

VARIABLES
    pc,                     \* position of the running command
    cmd,                    \* the command this process runs
    new_psk,                \* psk argument of run_psk_change
    send_webex_message,     \* flag argument of run_psk_change
    all_networks,           \* list returned by get_networks
    idx,                    \* position of the for loop in all_networks
    visited,                \* ids of the networks visited by the loop, in order
    mr_successful_updates,
    mx_successful_updates,
    mr_failed_updates,
    mx_failed_updates,
    ret,                    \* value returned by the bulk update, if any
    calls,                  \* dashboard calls issued, in order
    clock,                  \* datetime.now() at second resolution
    files,                  \* the data directory: path -> file content
    report_args,            \* the two lists generate_reports was called with, if any
    written,                \* paths opened for writing by generate_reports
    report_paths,           \* value returned by generate_reports, if any
    messages,               \* Webex messages.create calls issued, in order
    args,                   \* options of the update_ssid_psk command, if any
    ssids,                  \* SSID slots of the network update_ssid_psk addresses
    out,                    \* lines printed by update_ssid_psk and its callees
    caught,                 \* exception that reached update_ssid_psk's except, or None
    details,                \* value the update method returned to update_ssid_psk, if any
    update_successful,      \* flag of update_ssid_psk_by_name_for_all_networks
    ssid_not_found,         \* flag of update_ssid_psk_by_name_for_all_networks
    scan_log,               \* per network visited by the fleet-wide scan: what it found and did
    os_environ,             \* os.environ restricted to the four credentials
    dotenv,                 \* contents of config/.env
    Config_instance,        \* Config._instance
    c,                      \* the module-level c of main.py, meraki_api.py and webex_api.py
    env_manager_c,          \* the global c that reload_config binds in env_manager.py
    MerakiOps_instance,     \* MerakiOps._instance
    WebexBot_instance,      \* WebexBot._instance
    WebexOps_created,       \* number of WebexOps objects made by WebexOps.get_instance
    validations,            \* the calls of a validation function, in order, with their result
    prompts,                \* number of credential prompts answered so far
    stored,                 \* per credential, the value of the last set_env_var not yet rewritten
    runs,                   \* number of generate_reports calls made on the data directory
    webex_calls             \* the room and membership calls made on the bot's Webex client

vars == <<pc, cmd, new_psk, send_webex_message, all_networks, idx, visited,
          mr_successful_updates, mx_successful_updates, mr_failed_updates,
          mx_failed_updates, ret, calls, clock, files, report_args, written,
          report_paths, messages, args, ssids, out, caught, details,
          update_successful, ssid_not_found, scan_log, os_environ, dotenv, Config_instance, c,
          env_manager_c, MerakiOps_instance, WebexBot_instance, WebexOps_created, validations,
          prompts, stored, runs, webex_calls>>

bulkVars == <<all_networks, idx, visited, mr_successful_updates,
              mx_successful_updates, mr_failed_updates, mx_failed_updates, ret>>
reportVars == <<clock, files, report_args, written, report_paths, runs>>
scanVars == <<update_successful, ssid_not_found, scan_log>>
credVars == <<os_environ, dotenv, Config_instance, c, env_manager_c, MerakiOps_instance,
              WebexBot_instance, WebexOps_created, validations, prompts, stored, webex_calls>>
ssidVars == <<args, ssids, out, caught, details, scanVars, credVars>>

\* ------------------------------------------------------------ bulk update

\* network.get('tags', [])
NetworkTags(network) == IF network.hasTags THEN network.tags ELSE {}

\* the f-strings appended to the result lists, field by field
UpdatedEntry(kind, number, network) ==
    [text |-> "Updated PSK for", kind |-> kind, number |-> number,
     name |-> network.name, id |-> network.id, err |-> None]

FailedEntry(kind, number, network, e) ==
    [text |-> "Failed to update PSK for", kind |-> kind, number |-> number,
     name |-> network.name, id |-> network.id, err |-> e]

\* a call on self.dashboard, with whether it raised
Call(api, network_id, number, psk, raised) ==
    [api |-> api, net |-> network_id, number |-> number, psk |-> psk, raised |-> raised]

\* self.dashboard.wireless.updateNetworkWirelessSsid(network_id, number=..., psk=...)
WirelessUpdateCall(network_id, number, psk, raised) ==
    Call("updateNetworkWirelessSsid", network_id, number, psk, raised)

ApplianceUpdateCallOtherSlot(network_id, number, psk, raised) ==
    Call("updateNetworkApplianceSsid", network_id, number + 1, psk, raised)

\* self.dashboard.appliance.updateNetworkApplianceSsid(network_id, number=..., psk=...)
ApplianceUpdateCall(network_id, number, psk, raised) ==
    Call("updateNetworkApplianceSsid", network_id, number, psk, raised)

HasWirelessTagOrTest(network_tags) == TRUE

\* 'MX-GuestPSK' in network_tags
HasWirelessTag(network_tags) == GuestWirelessTag \in network_tags

HasApplianceTagOrWirelessTag(network_tags) ==
    GuestApplianceTag \in network_tags \/ GuestWirelessTag \in network_tags

\* 'MXW-GuestPSK' in network_tags
HasApplianceTag(network_tags) == GuestApplianceTag \in network_tags

ApplianceBranchUnlessWirelessFailed(network_tags, wirelessRaised) ==
    HasApplianceTag(network_tags) /\ ~wirelessRaised

\* the second "if" of the loop body is reached after the try/except of the
\* first one, whatever happened there
ApplianceBranch(network_tags, wirelessRaised) == HasApplianceTag(network_tags)

\* the four lists of the function, as one record
Lists(mrs, mxs, mrf, mxf) ==
    [mr_successful_updates |-> mrs, mx_successful_updates |-> mxs,
     mr_failed_updates |-> mrf, mx_failed_updates |-> mxf]

\* mr_successful_updates.append(mr_update_result)
RecordWirelessSuccess(L, entry) ==
    [L EXCEPT !.mr_successful_updates = Append(@, entry)]

RecordWirelessFailureDropped(L, entry) == L

\* except Exception as e: mr_failed_updates.append(update_result)
RecordWirelessFailure(L, entry) ==
    [L EXCEPT !.mr_failed_updates = Append(@, entry)]

RecordApplianceSuccessByType(L, entry) ==
    [L EXCEPT !.mx_successful_updates = Append(@, entry)]

\* mr_successful_updates.append(mx_update_result): the appliance result goes
\* to the mr_ list
RecordApplianceSuccess(L, entry) ==
    [L EXCEPT !.mr_successful_updates = Append(@, entry)]

RecordApplianceFailureInBothLists(L, entry) ==
    [L EXCEPT !.mr_failed_updates = Append(@, entry), !.mr_successful_updates = Append(@, entry)]

\* except Exception as e: mr_failed_updates.append(update_result)
RecordApplianceFailure(L, entry) ==
    [L EXCEPT !.mr_failed_updates = Append(@, entry)]

LoopAdvanceSkipping(i) == i + 2

\* the for loop moves to the next network of the list
LoopAdvance(i) == i + 1

\* an optional value: <<>> when absent, <<x>> when present
Nothing == <<>>
Some(x) == <<x>>

\* the credentials Config declares as fields (config.py:45-49)
EnvNames == {"MERAKI_API_KEY", "WEBEX_BOT_TOKEN", "WEBEX_PAT", "WEBEX_ROOM_ID"}
\* a variable that is not set, or set to the empty string: "not var_value"
Unset == ""

Init ==
    /\ pc = "idle"
    /\ cmd = None
    /\ new_psk = None
    /\ send_webex_message = FALSE
    /\ all_networks = <<>>
    /\ idx = 0
    /\ visited = <<>>
    /\ mr_successful_updates = <<>>
    /\ mx_successful_updates = <<>>
    /\ mr_failed_updates = <<>>
    /\ mx_failed_updates = <<>>
    /\ ret = Nothing
    /\ calls = <<>>
    /\ clock = 0
    /\ files = <<>>
    /\ report_args = Nothing
    /\ written = {}
    /\ report_paths = Nothing
    /\ messages = <<>>
    /\ args = Nothing
    /\ ssids = <<>>
    /\ out = <<>>
    /\ caught = None
    /\ details = Nothing
    /\ update_successful = FALSE
    /\ ssid_not_found = FALSE
    /\ scan_log = <<>>
    /\ os_environ = [n \in EnvNames |-> Unset]
    /\ dotenv = [n \in EnvNames |-> Unset]
    /\ Config_instance = Nothing
    /\ c = Nothing
    /\ env_manager_c = Nothing
    /\ MerakiOps_instance = Nothing
    /\ WebexBot_instance = Nothing
    /\ WebexOps_created = 0
    /\ validations = <<>>
    /\ prompts = 0
    /\ stored = [n \in EnvNames |-> Unset]
    /\ runs = 0
    /\ webex_calls = <<>>

\* run_psk_change up to the loop: the four lists are created empty and
\* get_networks fetches the organization's networks (or raises)
BulkStart ==
    /\ pc = "idle"
    /\ \E psk \in PSKs, send \in BOOLEAN, nets \in NetworkLists, ok \in BOOLEAN :
        /\ cmd' = "run_psk_change"
        /\ new_psk' = psk
        /\ send_webex_message' = send
        /\ mr_successful_updates' = <<>>
        /\ mx_successful_updates' = <<>>
        /\ mr_failed_updates' = <<>>
        /\ mx_failed_updates' = <<>>
        /\ calls' = Append(calls, Call("getOrganizationNetworks", NoNetwork, NoNumber, None, ~ok))
        /\ IF ok
           THEN /\ all_networks' = nets
                /\ idx' = 1
                /\ pc' = "loop"
           ELSE /\ all_networks' = <<>>
                /\ idx' = 0
                /\ pc' = "raised"
    /\ UNCHANGED <<visited, ret, reportVars, messages, ssidVars>>

\* one iteration of "for network in all_networks" (lines 145-169)
BulkVisit ==
    /\ pc = "loop"
    /\ idx <= Len(all_networks)
    /\ LET network == all_networks[idx]
           network_id == network.id
           network_tags == NetworkTags(network)
           mr == HasWirelessTag(network_tags)
       IN \E mrOk \in (IF mr THEN BOOLEAN ELSE {TRUE}) :
            LET mx == ApplianceBranch(network_tags, ~mrOk)
            IN \E mxOk \in (IF mx THEN BOOLEAN ELSE {TRUE}) :
                LET mrCall == WirelessUpdateCall(network_id, DefaultMrSsidNumber, new_psk, ~mrOk)
                    mxCall == ApplianceUpdateCall(network_id, DefaultMxSsidNumber, new_psk, ~mxOk)
                    mrEntryOk == UpdatedEntry("MR Wireless", DefaultMrSsidNumber, network)
                    mrEntryKo == FailedEntry("MR Wireless", DefaultMrSsidNumber, network, "APIError")
                    mxEntryOk == UpdatedEntry("Appliance (MX)", DefaultMxSsidNumber, network)
                    mxEntryKo == FailedEntry("Appliance (MX)", DefaultMxSsidNumber, network, "APIError")
                    L0 == Lists(mr_successful_updates, mx_successful_updates,
                                mr_failed_updates, mx_failed_updates)
                    L1 == IF ~mr THEN L0
                          ELSE IF mrOk THEN RecordWirelessSuccess(L0, mrEntryOk)
                          ELSE RecordWirelessFailure(L0, mrEntryKo)
                    L2 == IF ~mx THEN L1
                          ELSE IF mxOk THEN RecordApplianceSuccess(L1, mxEntryOk)
                          ELSE RecordApplianceFailure(L1, mxEntryKo)
                IN /\ calls' = calls \o (IF mr THEN <<mrCall>> ELSE <<>>) \o (IF mx THEN <<mxCall>> ELSE <<>>)
                   /\ mr_successful_updates' = L2.mr_successful_updates
                   /\ mx_successful_updates' = L2.mx_successful_updates
                   /\ mr_failed_updates' = L2.mr_failed_updates
                   /\ mx_failed_updates' = L2.mx_failed_updates
    /\ visited' = Append(visited, all_networks[idx].id)
    /\ idx' = LoopAdvance(idx)
    /\ UNCHANGED <<pc, cmd, new_psk, send_webex_message, all_networks, ret, reportVars, messages, ssidVars>>

\* after the loop: the lists are combined and returned
BulkReturn ==
    /\ pc = "loop"
    /\ idx > Len(all_networks)
    /\ ret' = Some([successes |-> mr_successful_updates \o mx_successful_updates,
                    failures |-> mr_failed_updates \o mx_failed_updates])
    /\ pc' = "returned"
    /\ UNCHANGED <<cmd, new_psk, send_webex_message, all_networks, idx, visited,
                   mr_successful_updates, mx_successful_updates, mr_failed_updates,
                   mx_failed_updates, calls, reportVars, messages, ssidVars>>

\* ---------------------------------------------------------------- reports

\* json.dump(list, file, indent=4) of a list of strings, as its tokens:
\* "[", the quoted strings separated by ",", "]"
Token(t, v) == [t |-> t, v |-> v]

RECURSIVE JsonItems(_)
JsonItems(list) ==
    IF list = <<>> THEN <<>>
    ELSE IF Len(list) = 1 THEN <<Token("str", list[1])>>
    ELSE <<Token("str", list[1]), Token(",", None)>> \o JsonItems(Tail(list))

JsonDump(list) == <<Token("[", None)>> \o JsonItems(list) \o <<Token("]", None)>>

\* json.load: the array a JSON text denotes, if it is well formed
JsonLoad(text) ==
    LET n == Len(text)
        wellFormed ==
            /\ n >= 2
            /\ text[1].t = "["
            /\ text[n].t = "]"
            /\ n = 2 \/ n % 2 = 1
            /\ \A k \in 2..(n - 1) : text[k].t = (IF k % 2 = 0 THEN "str" ELSE ",")
    IN IF wellFormed THEN Some([k \in 1..((n - 1) \div 2) |-> text[2 * k].v]) ELSE Nothing

StrftimeToTheMinute(now) == 0

\* datetime.now().strftime('%Y%m%d%H%M%S'): one stamp per second
Strftime(now) == now

NoPath == [stem |-> None, timestamp |-> -1]     \* a null path

ReportPathOwnStamp(stem, timestamp) ==
    [stem |-> stem,
     timestamp |-> IF stem = "unsuccessful_psk_changes" THEN timestamp + 1 ELSE timestamp]

\* os.path.join(c.DATA_FILE_PATH, f"<stem>_{timestamp}.json")
ReportPath(stem, timestamp) == [stem |-> stem, timestamp |-> timestamp]

\* open(path, 'w') followed by json.dump: creates or truncates the file
\* (the data directory is taken to be writable; an I/O error ends the run)
WriteFile(fs, path, content) ==
    [p \in (DOMAIN fs) \cup {path} |-> IF p = path THEN content ELSE fs[p]]

WritesAlways(list) == TRUE

\* "if successful_updates:" / "if failed_updates:": a non-empty list
ShouldWrite(list) == list # <<>>

\* generate_reports: the data directory after the call, the paths it opened
\* for writing, and the pair it returns
generate_reports(fs, successful_updates, failed_updates, now) ==
    LET timestamp == Strftime(now)
        success_file_path == ReportPath("successful_psk_changes", timestamp)
        failure_file_path == ReportPath("unsuccessful_psk_changes", timestamp)
        fs1 == IF ShouldWrite(successful_updates)
               THEN WriteFile(fs, success_file_path, JsonDump(successful_updates))
               ELSE fs
        fs2 == IF ShouldWrite(failed_updates)
               THEN WriteFile(fs1, failure_file_path, JsonDump(failed_updates))
               ELSE fs1
    IN [files |-> fs2,
        written |-> (IF ShouldWrite(successful_updates) THEN {success_file_path} ELSE {})
                        \cup (IF ShouldWrite(failed_updates) THEN {failure_file_path} ELSE {}),
        paths |-> <<success_file_path, failure_file_path>>]

\* run_psk_change after the bulk update returned (main.py:54-59): reports are
\* generated when there is at least one outcome
RunPskChangeReports ==
    /\ pc = "returned"
    /\ IF ret[1].successes # <<>> \/ ret[1].failures # <<>>
       THEN \E now \in {t \in Seconds : t >= clock} :
              LET r == generate_reports(files, ret[1].successes, ret[1].failures, now)
              IN /\ clock' = now
                 /\ files' = r.files
                 /\ written' = r.written
                 /\ report_paths' = Some(r.paths)
                 /\ report_args' = Some([successes |-> ret[1].successes, failures |-> ret[1].failures])
                 /\ runs' = runs + 1
                 /\ pc' = IF send_webex_message THEN "notify" ELSE "done"
       ELSE /\ pc' = "done"
            /\ UNCHANGED reportVars
    /\ UNCHANGED <<cmd, new_psk, send_webex_message, bulkVars, calls, messages, ssidVars>>

\* ------------------------------------------------------------ notification

\* self.api.messages.create(...), with whether it raised
Message(text, file, raised) == [text |-> text, file |-> file, raised |-> raised]

WebexBot_send_webex_messageAttachingAll(fs, message, file_paths, failAt) ==
    LET planned == <<Message(message, None, FALSE)>>
                      \o [k \in 1..Len(file_paths) |-> Message("Attached File", file_paths[k], FALSE)]
    IN IF failAt = 0 \/ failAt > Len(planned)
       THEN planned
       ELSE [k \in 1..failAt |-> IF k = failAt THEN [planned[k] EXCEPT !.raised = TRUE] ELSE planned[k]]

\* WebexBot.send_webex_message: the messages.create calls issued when the
\* call number failAt raises (0: none raises); the error is caught and logged
WebexBot_send_webex_message(fs, message, file_paths, failAt) ==
    LET existing == SelectSeq(file_paths, LAMBDA p : p \in DOMAIN fs)
        planned == <<Message(message, None, FALSE)>>
                      \o [k \in 1..Len(existing) |-> Message("Attached File", existing[k], FALSE)]
    IN IF failAt = 0 \/ failAt > Len(planned)
       THEN planned
       ELSE [k \in 1..failAt |-> IF k = failAt THEN [planned[k] EXCEPT !.raised = TRUE] ELSE planned[k]]

AfterSendReraising(sent) == IF \E k \in 1..Len(sent) : sent[k].raised THEN "raised" ELSE "done"

\* where run_psk_change stands after send_webex_message: the except clause
\* of lines 92-94 logs and does not re-raise, so the call always returns
AfterSend(sent) == "done"

\* run_psk_change, main.py:57-59
RunPskChangeNotify ==
    /\ pc = "notify"
    /\ \E failAt \in 0..3 :
        LET sent == WebexBot_send_webex_message(files, "PSK Change Report", report_paths[1], failAt)
        IN /\ messages' = messages \o sent
           /\ pc' = AfterSend(sent)
    /\ UNCHANGED <<cmd, new_psk, send_webex_message, bulkVars, calls, reportVars, ssidVars>>

\* a caller handing generate_reports two lists of its own
EntryPool ==
    {UpdatedEntry("MR Wireless", DefaultMrSsidNumber, [id |-> 1, name |-> 1]),
     FailedEntry("Appliance (MX)", DefaultMxSsidNumber, [id |-> 1, name |-> 1], "APIError")}

GenerateReportsCall ==
    /\ pc = "idle"
    /\ \E s \in SeqsUpTo(EntryPool, MaxList), f \in SeqsUpTo(EntryPool, MaxList), now \in Seconds :
        LET r == generate_reports(files, s, f, now)
        IN /\ clock' = now
           /\ files' = r.files
           /\ written' = r.written
           /\ report_paths' = Some(r.paths)
           /\ report_args' = Some([successes |-> s, failures |-> f])
    /\ runs' = runs + 1
    /\ cmd' = "generate_reports"
    /\ pc' = "done"
    /\ UNCHANGED <<new_psk, send_webex_message, bulkVars, calls, messages, ssidVars>>

\* the caller runs generate_reports this many times on one data directory
MaxRuns == 2

\* a later run of the caller on the same data directory, at the same second
\* or a later one, with a success list of updated entries and a failure list
\* of failed entries
GenerateReportsLater ==
    /\ pc = "done"
    /\ cmd = "generate_reports"
    /\ runs < MaxRuns
    /\ \E s \in SeqsUpTo({e \in EntryPool : e.err = None}, MaxList),
          f \in SeqsUpTo({e \in EntryPool : e.err # None}, MaxList),
          now \in {t \in Seconds : t >= clock} :
        LET r == generate_reports(files, s, f, now)
        IN /\ clock' = now
           /\ files' = r.files
           /\ written' = r.written
           /\ report_paths' = Some(r.paths)
           /\ report_args' = Some([successes |-> s, failures |-> f])
    /\ runs' = runs + 1
    /\ UNCHANGED <<pc, cmd, new_psk, send_webex_message, bulkVars, calls, messages, ssidVars>>

\* ------------------------------------------------- single-network update

SsidNames == {"Guest", "Corp", "guest"}
NetworkTypes == {"mrw", "mxw", "abc"}

\* the SSID slots of one network: slot k (from 0) holds a name and a psk
SsidLists ==
    {[k \in 1..NumSlots |-> [name |-> names[k], number |-> k - 1, psk |-> "old"]]
        : names \in [1..NumSlots -> SsidNames]}

\* result of a method: the exception it raised (or None), its value, the
\* dashboard calls it issued, the SSID slots and the lines printed after it
Result(exc, val, cs, ss, o) == [exc |-> exc, val |-> val, calls |-> cs, ssids |-> ss, out |-> o]

RECURSIVE FirstNamedOrFirstSlot(_, _, _)
FirstNamedOrFirstSlot(ss, ssid_name, k) ==
    IF k > Len(ss) THEN 0
    ELSE IF ss[k].name = ssid_name THEN ss[k].number
    ELSE FirstNamedOrFirstSlot(ss, ssid_name, k + 1)

RECURSIVE FirstNamed(_, _, _)
\* the for loop of get_ssid_num from position k: the number of the first
\* SSID with exactly that name, or NoNumber
FirstNamed(ss, ssid_name, k) ==
    IF k > Len(ss) THEN NoNumber
    ELSE IF ss[k].name = ssid_name THEN ss[k].number
    ELSE FirstNamed(ss, ssid_name, k + 1)

\* MerakiOps.get_ssid_num, with fetch_ssids inlined
get_ssid_num(ss, network_id, ssid_name, network_type, fetchOk) ==
    IF network_type \notin {"mrw", "mxw"}
    THEN Result("ValueError", None, <<>>, ss, <<>>)
    ELSE LET api == IF network_type = "mrw" THEN "getNetworkWirelessSsids" ELSE "getNetworkApplianceSsids"
             cs == <<Call(api, network_id, NoNumber, None, ~fetchOk)>>
             number == FirstNamed(ss, ssid_name, 1)
         IN IF ~fetchOk THEN Result("APIError", None, cs, ss, <<>>)
            ELSE IF number = NoNumber THEN Result("ValueError", None, cs, ss, <<>>)
            ELSE Result(None, number, cs, ss, <<>>)

SlotExists(ss, ssid_number) == \E k \in 1..Len(ss) : ss[k].number = ssid_number

SlotOf(ss, ssid_number) == CHOOSE k \in 1..Len(ss) : ss[k].number = ssid_number

\* the SSID methods of self.dashboard.appliance that the bulk update and
\* fetch_ssids call; the scope has no method named updateNetworkAppliance or
\* getApplianceWireless, and looking one up raises AttributeError
ApplianceScope == {"updateNetworkApplianceSsid", "getNetworkApplianceSsids"}

\* line 231: self.dashboard.appliance.updateNetworkAppliance
ApplianceUpdateMethod == "updateNetworkAppliance"

\* line 221: self.dashboard.appliance.getApplianceWireless
ApplianceReadMethod == "getApplianceWireless"

\* MerakiOps.update_ssid_psk_by_num, with get_ssid_details_by_num inlined;
\* a call on a slot the network does not have raises
update_ssid_psk_by_num(ss, network_id, ssid_number, psk, network_type, updOk, getOk) ==
    IF network_type \notin {"mrw", "mxw"}
    THEN Result("ValueError", Nothing, <<>>, ss, <<>>)
    ELSE LET exists == SlotExists(ss, ssid_number)
             updRaises == ~updOk \/ ~exists
             getRaises == ~getOk \/ ~exists
             updApi == IF network_type = "mrw" THEN "updateNetworkWirelessSsid" ELSE ApplianceUpdateMethod
             getApi == IF network_type = "mrw" THEN "getNetworkWirelessSsid" ELSE ApplianceReadMethod
             updMissing == network_type = "mxw" /\ updApi \notin ApplianceScope
             getMissing == network_type = "mxw" /\ getApi \notin ApplianceScope
             updCall == Call(updApi, network_id, ssid_number, psk, updRaises)
             getCall == Call(getApi, network_id, ssid_number, None, getRaises)
             ss1 == IF updRaises THEN ss ELSE [ss EXCEPT ![SlotOf(ss, ssid_number)].psk = psk]
         IN IF updMissing THEN Result("AttributeError", Nothing, <<>>, ss, <<>>)
            ELSE IF updRaises THEN Result("APIError", Nothing, <<updCall>>, ss, <<>>)
            ELSE IF getMissing THEN Result("AttributeError", Nothing, <<updCall>>, ss1, <<>>)
            ELSE IF getRaises THEN Result("APIError", Nothing, <<updCall, getCall>>, ss1, <<>>)
            ELSE Result(None, Some(ss1[SlotOf(ss, ssid_number)]), <<updCall, getCall>>, ss1, <<>>)

\* MerakiOps.update_ssid_psk_by_name_for_network
update_ssid_psk_by_name_for_network(ss, network_id, ssid_name, psk, network_type, fetchOk, updOk, getOk) ==
    IF network_type = "mrw"
    THEN LET r1 == get_ssid_num(ss, network_id, ssid_name, network_type, fetchOk)
             r2 == update_ssid_psk_by_num(ss, network_id, r1.val, psk, network_type, updOk, getOk)
             notFound == <<"Error: SSID not found in the network. No PSK updates were made.">>
         IN IF r1.exc = "ValueError" THEN Result(None, Nothing, r1.calls, ss, notFound)
            ELSE IF r1.exc # None THEN Result(r1.exc, Nothing, r1.calls, ss, <<>>)
            ELSE IF r2.exc = "ValueError" THEN Result(None, Nothing, r1.calls \o r2.calls, r2.ssids, notFound)
            ELSE IF r2.exc # None THEN Result(r2.exc, Nothing, r1.calls \o r2.calls, r2.ssids, <<>>)
            ELSE Result(None, Nothing, r1.calls \o r2.calls, r2.ssids, <<"PSK updated for MR wireless network">>)
    ELSE Result(None, Nothing, <<>>, ss, <<>>)   \* "mxw": pass; any other type: no branch

\* the try block of the update_ssid_psk command (main.py:281-298)
update_ssid_psk(ss, a, fetchOk, updOk, getOk) ==
    LET byNum == update_ssid_psk_by_num(ss, a.network_id, a.ssid_number, a.psk, a.network_type, updOk, getOk)
        byName == update_ssid_psk_by_name_for_network(ss, a.network_id, a.ssid_name, a.psk, a.network_type, fetchOk, updOk, getOk)
        r == IF a.ssid_name # None /\ a.ssid_number # NoNumber THEN byNum
             ELSE IF a.ssid_name # None THEN byName
             ELSE IF a.ssid_number # NoNumber THEN byNum
             ELSE Result(None, Nothing, <<>>, ss, <<>>)
        branch == a.ssid_name # None \/ a.ssid_number # NoNumber
    IN IF r.exc # None
       THEN [r EXCEPT !.out = r.out \o <<"Failed to update PSK.">>]
       ELSE IF branch THEN [r EXCEPT !.out = r.out \o <<"PSK updated successfully">>]
       ELSE r

\* the update_ssid_psk command once its options are known: the prompts have
\* supplied the network id, the psk and one of name and number
UpdateSsidPsk ==
    /\ pc = "idle"
    /\ \E ss \in SsidLists, name \in SsidNames \cup {None}, number \in (0..NumSlots) \cup {NoNumber},
          psk \in PSKs, type \in NetworkTypes, fetchOk \in BOOLEAN, updOk \in BOOLEAN, getOk \in BOOLEAN :
        /\ name # None \/ number # NoNumber
        /\ LET a == [network_id |-> 1, ssid_name |-> name, ssid_number |-> number,
                     psk |-> psk, network_type |-> type]
               r == update_ssid_psk(ss, a, fetchOk, updOk, getOk)
           IN /\ args' = Some(a)
              /\ ssids' = r.ssids
              /\ calls' = calls \o r.calls
              /\ out' = r.out
              /\ caught' = r.exc
              /\ details' = r.val
    /\ cmd' = "update_ssid_psk"
    /\ pc' = "done"
    /\ UNCHANGED <<new_psk, send_webex_message, bulkVars, reportVars, messages, scanVars, credVars>>

\* ------------------------------------------------------- fleet-wide scan

\* the networks get_networks returns to the scan; their tags play no part
ScanNetworks(n) == [i \in 1..n |-> [id |-> i, name |-> i, hasTags |-> TRUE, tags |-> {}]]

ScanAfterNotFoundAborts == "raised"

\* except ValueError: continue (lines 271-273): the loop goes on
ScanAfterNotFound == "scan"

\* update_ssid_psk_by_name_for_all_networks up to the loop: get_org_id and
\* get_networks (either may raise), the two flags
ScanStart ==
    /\ pc = "idle"
    /\ \E name \in SsidNames, psk \in PSKs, type \in NetworkTypes, n \in 0..MaxNets,
          orgOk \in BOOLEAN, netOk \in BOOLEAN :
        /\ args' = Some([network_id |-> NoNetwork, ssid_name |-> name, ssid_number |-> NoNumber,
                         psk |-> psk, network_type |-> type])
        /\ calls' = calls \o <<Call("getOrganizations", NoNetwork, NoNumber, None, ~orgOk)>>
                        \o (IF orgOk THEN <<Call("getOrganizationNetworks", NoNetwork, NoNumber, None, ~netOk)>>
                            ELSE <<>>)
        /\ IF orgOk /\ netOk
           THEN /\ all_networks' = ScanNetworks(n)
                /\ idx' = 1
                /\ pc' = "scan"
           ELSE /\ all_networks' = <<>>
                /\ idx' = 0
                /\ pc' = "raised"
    /\ cmd' = "update_ssid_psk_by_name_for_all_networks"
    /\ update_successful' = FALSE
    /\ ssid_not_found' = TRUE
    /\ scan_log' = <<>>
    /\ UNCHANGED <<new_psk, send_webex_message, visited, mr_successful_updates, mx_successful_updates,
                   mr_failed_updates, mx_failed_updates, ret, reportVars, messages,
                   ssids, out, caught, details, credVars>>

\* one iteration of "for network in networks" (lines 259-273); ss is the SSID
\* list of the network
ScanVisit ==
    /\ pc = "scan"
    /\ idx <= Len(all_networks)
    /\ \E ss \in SsidLists, fetchOk \in BOOLEAN, updOk \in BOOLEAN, getOk \in BOOLEAN :
        LET a == args[1]
            network_id == all_networks[idx].id
            r1 == get_ssid_num(ss, network_id, a.ssid_name, a.network_type, fetchOk)
            r2 == update_ssid_psk_by_num(ss, network_id, r1.val, a.psk, a.network_type, updOk, getOk)
            hasName == FirstNamed(ss, a.ssid_name, 1) # NoNumber
            entry(updated) == [net |-> network_id, hasName |-> hasName, updated |-> updated]
        IN IF a.network_type # "mrw"
           THEN \* "mxw": pass; any other type: no branch
                /\ scan_log' = Append(scan_log, entry(FALSE))
                /\ pc' = "scan"
                /\ UNCHANGED <<calls, out, update_successful, ssid_not_found>>
           ELSE IF r1.exc = "ValueError"
           THEN /\ calls' = calls \o r1.calls
                /\ scan_log' = Append(scan_log, entry(FALSE))
                /\ pc' = ScanAfterNotFound
                /\ UNCHANGED <<out, update_successful, ssid_not_found>>
           ELSE IF r1.exc # None
           THEN /\ calls' = calls \o r1.calls
                /\ scan_log' = Append(scan_log, entry(FALSE))
                /\ pc' = "raised"
                /\ UNCHANGED <<out, update_successful, ssid_not_found>>
           ELSE IF r2.exc # None
           THEN /\ calls' = calls \o r1.calls \o r2.calls
                /\ scan_log' = Append(scan_log, entry(r2.ssids # ss))
                /\ pc' = IF r2.exc = "ValueError" THEN ScanAfterNotFound ELSE "raised"
                /\ UNCHANGED <<out, update_successful, ssid_not_found>>
           ELSE /\ calls' = calls \o r1.calls \o r2.calls
                /\ scan_log' = Append(scan_log, entry(TRUE))
                /\ out' = Append(out, "PSK updated for MR wireless network")
                /\ update_successful' = TRUE
                /\ ssid_not_found' = FALSE
                /\ pc' = "scan"
    /\ idx' = idx + 1
    /\ UNCHANGED <<cmd, new_psk, send_webex_message, all_networks, visited, mr_successful_updates,
                   mx_successful_updates, mr_failed_updates, mx_failed_updates, ret, reportVars,
                   messages, args, ssids, caught, details, credVars>>

\* after the loop (lines 275-280): one closing line
ScanEnd ==
    /\ pc = "scan"
    /\ idx > Len(all_networks)
    /\ out' = Append(out, IF ssid_not_found THEN "Warning: SSID not found in any network. No PSK updates were made."
                          ELSE IF update_successful THEN "PSK update operation completed successfully"
                          ELSE "Error: The PSK update operation failed")
    /\ pc' = "done"
    /\ UNCHANGED <<cmd, new_psk, send_webex_message, bulkVars, calls, reportVars, messages,
                   args, ssids, caught, details, scanVars, credVars>>

\* ------------------------------------------------------------ credentials

\* the keys and tokens a user holds; the remote service accepts "good"
CredValues == {"good", "bad"}
IsValid(value) == value = "good"
\* the user gives up after this many credential prompts
MaxPrompts == 2

\* what config/.env holds when the process starts
InitialEnvs ==
    {e \in [EnvNames -> CredValues \cup {Unset, "room0"}] :
        /\ e["WEBEX_ROOM_ID"] \in {Unset, "room0"}
        /\ \A n \in EnvNames \ {"WEBEX_ROOM_ID"} : e[n] \in CredValues \cup {Unset}}

\* load_dotenv (override left at False): a variable the environment already
\* holds keeps its value
load_dotenv(env, file) == [n \in EnvNames |-> IF env[n] = Unset THEN file[n] ELSE env[n]]

\* dotenv.set_key
set_key(file, name, value) == [file EXCEPT ![name] = value]

\* Config(): a new settings object, its fields read from the environment
Config(id, env) == [id |-> id, fields |-> env]

\* the number of Config objects made so far
ConfigCount(inst) == IF inst = Nothing THEN 0 ELSE inst[1].id

\* EnvironmentManager.reload_config: Config._instance is reset and made anew;
\* "global c" binds the c of env_manager.py and no other module's
reload_config(inst, env) == Some(Config(ConfigCount(inst) + 1, env))

\* reload_config run k times in a row
RECURSIVE ReloadTimes(_, _, _)
ReloadTimes(inst, env, k) == IF k = 0 THEN inst ELSE ReloadTimes(reload_config(inst, env), env, k - 1)

\* MerakiOps(api_key=...): __new__ hands back the one instance, __init__ runs
\* on it again and builds a new DashboardAPI; dashboard numbers the clients
MerakiOps(inst, api_key, cfg) ==
    Some([api_key |-> IF api_key # Unset THEN api_key ELSE cfg[1].fields["MERAKI_API_KEY"],
          dashboard |-> (IF inst = Nothing THEN 0 ELSE inst[1].dashboard) + 1])

\* Validators.validate_meraki_api_key
validate_meraki_api_key(inst, api_key, cfg) ==
    LET meraki_ops == MerakiOps(inst, api_key, cfg)
    IN [valid |-> IsValid(meraki_ops[1].api_key), meraki |-> meraki_ops]

\* WebexBot(token=...): __init__ does nothing once _initialized exists
WebexBot(inst, token, cfg) ==
    IF inst = Nothing
    THEN Some([token |-> IF token # Unset THEN token ELSE cfg[1].fields["WEBEX_BOT_TOKEN"],
               api |-> 1, has_initialized |-> TRUE])
    ELSE inst

\* WebexBot.get_instance(token): __new__ without __init__, then
\* set_token_and_initialize when a token is given
WebexBot_get_instance(inst, token) ==
    LET instance == IF inst = Nothing
                    THEN [token |-> Unset, api |-> 0, has_initialized |-> FALSE]
                    ELSE inst[1]
    IN IF token # Unset
       THEN Some([token |-> token, api |-> instance.api + 1, has_initialized |-> TRUE])
       ELSE Some(instance)

\* Validators.validate_webex_bot_token: the token validated is the one the
\* WebexBot instance holds
validate_webex_bot_token(inst, token, cfg) ==
    LET webex_bot == WebexBot(inst, token, cfg)
    IN [valid |-> IsValid(webex_bot[1].token), bot |-> webex_bot]

\* Validators.validate_webex_pat: WebexOps.get_instance(token=pat) makes a
\* new object at every call
validate_webex_pat(created, pat) == [valid |-> IsValid(pat), created |-> created + 1]

\* validation_func(value) of ensure_env_set for the variable, with the
\* singletons it leaves behind
Validate(var_name, meraki, bot, value, cfg) ==
    IF var_name = "MERAKI_API_KEY"
    THEN LET r == validate_meraki_api_key(meraki, value, cfg)
         IN [valid |-> r.valid, meraki |-> r.meraki, bot |-> bot]
    ELSE LET r == validate_webex_bot_token(bot, value, cfg)
         IN [valid |-> r.valid, meraki |-> meraki, bot |-> r.bot]

Validation(var_name, value, valid) == [var |-> var_name, value |-> value, valid |-> valid]

StoreUnchecked(store, var_name, var_value, valid) == [store EXCEPT ![var_name] = var_value]

\* lines 65-67: the prompted value is written only after validation_func
\* accepted it
StoreIfValid(store, var_name, var_value, valid) ==
    IF valid THEN [store EXCEPT ![var_name] = var_value] ELSE store

CredCmds == {"webex_list_rooms", "webex_run_meraki_psk_change"}
EnsureStages == {"common_setup", "ensure_key", "ensure_bot"}
VarOf(stage) == IF stage = "ensure_bot" THEN "WEBEX_BOT_TOKEN" ELSE "MERAKI_API_KEY"

\* callback=env_manager.reload_config is passed by common_setup and by
\* webex_list_rooms, not by webex_run_meraki_psk_change
HasCallback(stage, command) == stage = "common_setup" \/ command = "webex_list_rooms"

\* what follows the return of an ensure_..._set call
NextStage(stage, command) ==
    IF stage = "common_setup"
    THEN (IF command = "webex_list_rooms" THEN "ensure_bot" ELSE "options")
    ELSE IF stage = "ensure_key" THEN "ensure_bot"
    ELSE IF stage = "ensure_bot"
    THEN (IF command = "webex_list_rooms" THEN "list_rooms" ELSE "ensure_pat")
    ELSE "room"

\* the start of a process that runs a Webex command: the imports (config.py
\* loads .env, the modules bind c to the first Config), then common_setup up
\* to its credential loop
ProcessStart ==
    /\ pc = "idle"
    /\ \E command \in CredCmds, env0 \in InitialEnvs :
        LET env == load_dotenv(os_environ, env0)
            first == Some(Config(1, env))
            env1 == load_dotenv(env, env0)
            second == reload_config(first, env1)
        IN /\ cmd' = command
           /\ dotenv' = env0
           /\ os_environ' = env1
           /\ c' = first
           /\ Config_instance' = second
           /\ env_manager_c' = second
    /\ pc' = "common_setup"
    /\ UNCHANGED <<new_psk, send_webex_message, bulkVars, calls, reportVars, messages,
                   args, ssids, out, caught, details, scanVars, MerakiOps_instance,
                   WebexBot_instance, WebexOps_created, validations, prompts, stored, webex_calls>>

\* one pass of the "while True" of ensure_env_set
EnsureEnvSet ==
    /\ pc \in EnsureStages
    /\ LET var_name == VarOf(pc)
           callback == HasCallback(pc, cmd)
           var_value == os_environ[var_name]
           first == IF var_value # Unset
                    THEN Validate(var_name, MerakiOps_instance, WebexBot_instance, var_value, c)
                    ELSE [valid |-> FALSE, meraki |-> MerakiOps_instance, bot |-> WebexBot_instance]
           log1 == IF var_value # Unset
                   THEN Append(validations, Validation(var_name, var_value, first.valid))
                   ELSE validations
       IN IF first.valid
          THEN \* lines 76-80
               /\ MerakiOps_instance' = first.meraki
               /\ WebexBot_instance' = first.bot
               /\ validations' = log1
               /\ Config_instance' = ReloadTimes(Config_instance, os_environ, IF callback THEN 1 ELSE 0)
               /\ env_manager_c' = IF callback THEN Config_instance' ELSE env_manager_c
               /\ pc' = NextStage(pc, cmd)
               /\ UNCHANGED <<os_environ, dotenv, prompts, stored>>
          ELSE \* lines 64-75
               /\ prompts < MaxPrompts
               /\ \E prompted \in CredValues :
                   LET second == Validate(var_name, first.meraki, first.bot, prompted, c)
                       env1 == StoreIfValid(os_environ, var_name, prompted, second.valid)
                       file1 == StoreIfValid(dotenv, var_name, prompted, second.valid)
                       env2 == IF second.valid THEN load_dotenv(env1, file1) ELSE env1
                   IN /\ MerakiOps_instance' = second.meraki
                      /\ WebexBot_instance' = second.bot
                      /\ validations' = Append(log1, Validation(var_name, prompted, second.valid))
                      /\ os_environ' = env2
                      /\ dotenv' = file1
                      /\ stored' = IF second.valid THEN [stored EXCEPT ![var_name] = Unset] ELSE stored
                      /\ Config_instance' = IF second.valid
                                            THEN ReloadTimes(Config_instance, env2, IF callback THEN 2 ELSE 1)
                                            ELSE Config_instance
                      /\ env_manager_c' = IF second.valid THEN Config_instance' ELSE env_manager_c
                      /\ pc' = IF second.valid THEN NextStage(pc, cmd) ELSE pc
               /\ prompts' = prompts + 1
    /\ UNCHANGED <<cmd, new_psk, send_webex_message, bulkVars, calls, reportVars, messages,
                   args, ssids, out, caught, details, scanVars, c, WebexOps_created, webex_calls>>

\* EnvironmentManager.set_env_var on the stores it writes
set_env_var(st, var_name, var_value) ==
    LET env == [st.os_environ EXCEPT ![var_name] = var_value]
    IN [os_environ |-> env,
        dotenv |-> set_key(st.dotenv, var_name, var_value),
        Config_instance |-> reload_config(st.Config_instance, env),
        stored |-> [st.stored EXCEPT ![var_name] = var_value]]

\* set_env_var for an option when the option was given
SetOption(st, var_name, option) == IF option # Unset THEN set_env_var(st, var_name, option) ELSE st

Stores == [os_environ |-> os_environ, dotenv |-> dotenv, Config_instance |-> Config_instance,
           stored |-> stored]

\* webex_run_meraki_psk_change, lines 177-182: the options given on the
\* command line are stored
WebexRunSetOptions ==
    /\ pc = "options"
    /\ \E meraki_api_key \in CredValues \cup {Unset}, webex_bot_token \in CredValues \cup {Unset},
          webex_pat \in CredValues \cup {Unset} :
        LET st == SetOption(SetOption(SetOption(Stores, "MERAKI_API_KEY", meraki_api_key),
                                      "WEBEX_BOT_TOKEN", webex_bot_token),
                            "WEBEX_PAT", webex_pat)
        IN /\ os_environ' = st.os_environ
           /\ dotenv' = st.dotenv
           /\ Config_instance' = st.Config_instance
           /\ env_manager_c' = IF st.Config_instance # Config_instance THEN st.Config_instance ELSE env_manager_c
           /\ stored' = st.stored
    /\ pc' = "ensure_key"
    /\ UNCHANGED <<cmd, new_psk, send_webex_message, bulkVars, calls, reportVars, messages,
                   args, ssids, out, caught, details, scanVars, c, MerakiOps_instance,
                   WebexBot_instance, WebexOps_created, validations, prompts, webex_calls>>

\* one pass of the "while True" of ensure_pat_set
EnsurePatSet ==
    /\ pc = "ensure_pat"
    /\ os_environ["WEBEX_PAT"] = Unset => prompts < MaxPrompts
    /\ \E prompted \in CredValues :
        LET asked == os_environ["WEBEX_PAT"] = Unset
            pat == IF asked THEN prompted ELSE os_environ["WEBEX_PAT"]
            r == validate_webex_pat(WebexOps_created, pat)
            env1 == [os_environ EXCEPT !["WEBEX_PAT"] = pat]
            file1 == set_key(dotenv, "WEBEX_PAT", pat)
            env2 == load_dotenv(env1, file1)
        IN /\ WebexOps_created' = r.created
           /\ validations' = Append(validations, Validation("WEBEX_PAT", pat, r.valid))
           /\ prompts' = IF asked THEN prompts + 1 ELSE prompts
           /\ IF r.valid
              THEN /\ os_environ' = env2
                   /\ dotenv' = file1
                   /\ Config_instance' = reload_config(Config_instance, env2)
                   /\ env_manager_c' = Config_instance'
                   /\ pc' = NextStage(pc, cmd)
              ELSE /\ os_environ' = [os_environ EXCEPT !["WEBEX_PAT"] = Unset]
                   /\ pc' = pc
                   /\ UNCHANGED <<dotenv, Config_instance, env_manager_c>>
           /\ stored' = [stored EXCEPT !["WEBEX_PAT"] = Unset]
    /\ UNCHANGED <<cmd, new_psk, send_webex_message, bulkVars, calls, reportVars, messages,
                   args, ssids, out, caught, details, scanVars, c, MerakiOps_instance,
                   WebexBot_instance, webex_calls>>

\* a call on the Webex client of the bot, with whether it raised
WebexCall(api, raised) == [api |-> api, raised |-> raised]

\* is_user_in_room and add_user_to_space as ensure_webex_room_id_set calls
\* them (lines 146-147): both catch their errors; the user is added unless
\* the membership list shows the user
RoomMembershipCalls(listOutcome, addOk) ==
    <<WebexCall("memberships.list", listOutcome = "raised")>>
        \o (IF listOutcome = "member" THEN <<>> ELSE <<WebexCall("memberships.create", ~addOk)>>)

\* webex_run_meraki_psk_change, lines 188-196: the bot, the room and its id,
\* the user added to the room; create_room catches the error of a failed
\* rooms.create and returns None, and room.id (env_manager.py:143) then raises
\* AttributeError, which nothing catches
WebexRunRoom ==
    /\ pc = "room"
    /\ \E webex_bot_token \in CredValues \cup {Unset}, room_name \in {Unset, "ops"}, createOk \in BOOLEAN,
          listOutcome \in {"raised", "absent", "member"}, addOk \in BOOLEAN, addAgainOk \in BOOLEAN :
        LET webex_bot == WebexBot(WebexBot_instance, webex_bot_token, c)
            room_id == os_environ["WEBEX_ROOM_ID"]
            creates == room_id = Unset \/ room_name # Unset
            st1 == IF creates
                   THEN LET s1 == set_env_var(Stores, "WEBEX_ROOM_ID", "room1")
                        IN [s1 EXCEPT !.Config_instance = reload_config(s1.Config_instance, s1.os_environ)]
                   ELSE Stores
            st2 == set_env_var(st1, "WEBEX_ROOM_ID", st1.os_environ["WEBEX_ROOM_ID"])
        IN /\ WebexBot_instance' = webex_bot
           /\ IF creates /\ ~createOk
              THEN /\ pc' = "raised"
                   /\ webex_calls' = Append(webex_calls, WebexCall("rooms.create", TRUE))
                   /\ UNCHANGED <<os_environ, dotenv, Config_instance, env_manager_c, stored>>
              ELSE /\ pc' = "run_psk_change"
                   /\ webex_calls' = webex_calls
                        \o (IF creates
                            THEN <<WebexCall("rooms.create", FALSE)>> \o RoomMembershipCalls(listOutcome, addOk)
                            ELSE <<>>)
                        \o <<WebexCall("memberships.create", ~addAgainOk)>>
                   /\ os_environ' = st2.os_environ
                   /\ dotenv' = st2.dotenv
                   /\ Config_instance' = st2.Config_instance
                   /\ env_manager_c' = st2.Config_instance
                   /\ stored' = st2.stored
    /\ UNCHANGED <<cmd, new_psk, send_webex_message, bulkVars, calls, reportVars, messages,
                   args, ssids, out, caught, details, scanVars, c, MerakiOps_instance,
                   WebexOps_created, validations, prompts>>

\* webex_list_rooms after ensure_bot_token_set, lines 152-160 (webex_delete_room,
\* lines 139-144, reads the token and takes the bot the same way)
WebexListRooms ==
    /\ pc = "list_rooms"
    /\ LET webex_bot_token == c[1].fields["WEBEX_BOT_TOKEN"]
       IN WebexBot_instance' = WebexBot_get_instance(WebexBot_instance, webex_bot_token)
    /\ pc' = "done"
    /\ UNCHANGED <<cmd, new_psk, send_webex_message, bulkVars, calls, reportVars, messages,
                   args, ssids, out, caught, details, scanVars, os_environ, dotenv,
                   Config_instance, c, env_manager_c, MerakiOps_instance, WebexOps_created,
                   validations, prompts, stored, webex_calls>>

Next ==
    \/ BulkStart
    \/ BulkVisit
    \/ BulkReturn
    \/ RunPskChangeReports
    \/ RunPskChangeNotify
    \/ GenerateReportsCall
    \/ UpdateSsidPsk
    \/ GenerateReportsLater
    \/ ScanStart
    \/ ScanVisit
    \/ ScanEnd
    \/ ProcessStart
    \/ EnsureEnvSet
    \/ WebexRunSetOptions
    \/ EnsurePatSet
    \/ WebexRunRoom
    \/ WebexListRooms

Spec == Init /\ [][Next]_vars

\* the blocking calls return or raise, so a running command takes its next step
FairSpec == Spec /\ WF_vars(Next)

\* ------------------------------------------------------------- properties

BulkCmd == cmd = "run_psk_change"
BulkReturned == BulkCmd /\ pc \in {"returned", "notify", "done"}
UpdateApis == {"updateNetworkWirelessSsid", "updateNetworkApplianceSsid"}

\* the two lists as line 172 and line 182 combine them
SuccessList == mr_successful_updates \o mx_successful_updates
FailureList == mr_failed_updates \o mx_failed_updates

EntriesFor(list, id) == SelectSeq(list, LAMBDA e : e.id = id)
UpdateCallsTo(id) == SelectSeq(calls, LAMBDA call : call.api \in UpdateApis /\ call.net = id)
Position(id) == CHOOSE k \in 1..Len(all_networks) : all_networks[k].id = id
CarriesWirelessTag(n) == n.hasTags /\ "MX-GuestPSK" \in n.tags
CarriesApplianceTag(n) == n.hasTags /\ "MXW-GuestPSK" \in n.tags
KindOf(api) == IF api = "updateNetworkWirelessSsid" THEN "MR Wireless" ELSE "Appliance (MX)"
Kinds(list) == [k \in 1..Len(list) |-> list[k].kind]

C2_FailureIsolation ==
    BulkCmd =>
        /\ pc = "raised" => \A k \in 1..Len(calls) : calls[k].api \notin UpdateApis
        /\ BulkReturned => Len(visited) = Len(all_networks)
        /\ \A k \in 1..Len(visited) :
              LET n == all_networks[k]
                  cs == UpdateCallsTo(n.id)
                  expected == (IF CarriesWirelessTag(n) THEN <<"updateNetworkWirelessSsid">> ELSE <<>>)
                                 \o (IF CarriesApplianceTag(n) THEN <<"updateNetworkApplianceSsid">> ELSE <<>>)
                  raisedKinds == Kinds([j \in 1..Len(SelectSeq(cs, LAMBDA call : call.raised)) |->
                                            [kind |-> KindOf(SelectSeq(cs, LAMBDA call : call.raised)[j].api)]])
                  passedKinds == Kinds([j \in 1..Len(SelectSeq(cs, LAMBDA call : ~call.raised)) |->
                                            [kind |-> KindOf(SelectSeq(cs, LAMBDA call : ~call.raised)[j].api)]])
              IN /\ [j \in 1..Len(cs) |-> cs[j].api] = expected
                 /\ Kinds(EntriesFor(FailureList, n.id)) = raisedKinds
                 /\ Kinds(EntriesFor(SuccessList, n.id)) = passedKinds

\* a finished run in which a call to one network raised and a network
\* enumerated after it was updated
C2_Witness ==
    /\ BulkReturned
    /\ \E a \in 1..Len(all_networks), b \in 1..Len(all_networks) :
          /\ a < b
          /\ \E k \in 1..Len(calls) : calls[k].net = all_networks[a].id /\ calls[k].raised
          /\ EntriesFor(FailureList, all_networks[a].id) # <<>>
          /\ EntriesFor(SuccessList, all_networks[b].id) # <<>>

\* C3: a visited network carrying both guest tags has exactly two entries,
\* one for the wireless attempt and one for the appliance attempt, and the
\* appliance update call was issued whether the wireless call raised or not.
C3_BothTagsTwoEntries ==
    BulkCmd =>
        \A k \in 1..Len(visited) :
            LET n == all_networks[k]
                both == EntriesFor(SuccessList, n.id) \o EntriesFor(FailureList, n.id)
            IN (CarriesWirelessTag(n) /\ CarriesApplianceTag(n)) =>
                  /\ Len(both) = 2
                  /\ {both[j].kind : j \in 1..Len(both)} = {"MR Wireless", "Appliance (MX)"}
                  /\ \E j \in 1..Len(calls) :
                        calls[j].api = "updateNetworkApplianceSsid" /\ calls[j].net = n.id

\* a network with both tags whose wireless call raised and whose appliance
\* call went through
C3_Witness ==
    /\ BulkCmd
    /\ \E k \in 1..Len(visited) :
          /\ CarriesWirelessTag(all_networks[k]) /\ CarriesApplianceTag(all_networks[k])
          /\ \E j \in 1..Len(calls) :
                calls[j].api = "updateNetworkWirelessSsid" /\ calls[j].net = all_networks[k].id /\ calls[j].raised
          /\ \E j \in 1..Len(calls) :
                calls[j].api = "updateNetworkApplianceSsid" /\ calls[j].net = all_networks[k].id /\ ~calls[j].raised

\* C4: with the default slot arguments, once the bulk update has returned
\* every network tagged 'MX-GuestPSK' has received a wireless SSID update call
\* at slot 2 carrying the supplied PSK, and every network tagged
\* 'MXW-GuestPSK' an appliance SSID update call at slot 2 carrying it.
C4_DefaultSlotAndPsk ==
    BulkReturned =>
        \A k \in 1..Len(all_networks) :
            LET n == all_networks[k]
            IN /\ CarriesWirelessTag(n) =>
                    \E j \in 1..Len(calls) :
                        /\ calls[j].api = "updateNetworkWirelessSsid"
                        /\ calls[j].net = n.id /\ calls[j].number = 2 /\ calls[j].psk = new_psk
               /\ CarriesApplianceTag(n) =>
                    \E j \in 1..Len(calls) :
                        /\ calls[j].api = "updateNetworkApplianceSsid"
                        /\ calls[j].net = n.id /\ calls[j].number = 2 /\ calls[j].psk = new_psk

\* a finished run over a list with a wireless-tagged and an appliance-tagged network
C4_Witness ==
    /\ BulkReturned
    /\ new_psk = "Summer2024!"
    /\ \E k \in 1..Len(all_networks) : all_networks[k].tags = {"MX-GuestPSK"}
    /\ \E k \in 1..Len(all_networks) : all_networks[k].tags = {"MXW-GuestPSK"}
    /\ \E k \in 1..Len(all_networks) : all_networks[k].tags = {}

InEnumerationOrder(list) ==
    \A i \in 1..Len(list), j \in 1..Len(list) :
        i < j =>
            \/ Position(list[i].id) < Position(list[j].id)
            \/ /\ list[i].id = list[j].id
               /\ list[i].kind = "MR Wireless"
               /\ list[j].kind = "Appliance (MX)"

\* C5: in each returned list the entry of the network enumerated earlier
\* comes first, and for one network the wireless entry comes before the
\* appliance entry: the lists are not regrouped by network type.
C5_EnumerationOrder ==
    ret # Nothing => InEnumerationOrder(ret[1].successes) /\ InEnumerationOrder(ret[1].failures)

\* a returned success list in which an appliance entry of an earlier network
\* precedes a wireless entry of a later one
C5_Witness ==
    /\ ret # Nothing
    /\ \E i \in 1..Len(ret[1].successes), j \in 1..Len(ret[1].successes) :
          /\ i < j
          /\ ret[1].successes[i].kind = "Appliance (MX)"
          /\ ret[1].successes[j].kind = "MR Wireless"
    /\ Len(ret[1].failures) >= 2


IdsOf(networks) == [k \in 1..Len(networks) |-> networks[k].id]

\* C6: for any network list and any pattern of failing update calls the bulk
\* update terminates, the networks are visited one at a time in enumeration
\* order, and the two lists are returned only when every network of the list
\* has been visited exactly once.
C6_VisitsAllThenReturns ==
    /\ [](BulkCmd => /\ Len(visited) <= Len(all_networks)
                     /\ visited = [k \in 1..Len(visited) |-> all_networks[k].id])
    /\ [](ret # Nothing => visited = IdsOf(all_networks))
    /\ [](pc = "loop" => <>(ret # Nothing))

\* the lists were returned after a run over two networks or more in which a
\* call raised
C6_Witness ==
    /\ ret # Nothing
    /\ Len(all_networks) >= 2
    /\ visited = IdsOf(all_networks)
    /\ \E k \in 1..Len(calls) : calls[k].api \in UpdateApis /\ calls[k].raised

ReportsRan == report_args # Nothing
WrittenWithStem(stem) == {p \in written : p.stem = stem}

\* C7: generate_reports writes the success file if and only if the success
\* list is non-empty and the failure file if and only if the failure list is
\* non-empty (none for two empty lists), and each file written holds a JSON
\* array whose elements are the elements of its list, in order.
C7_WritesIffNonEmpty ==
    ReportsRan =>
        LET a == report_args[1]
        IN /\ (WrittenWithStem("successful_psk_changes") # {}) <=> (a.successes # <<>>)
           /\ (WrittenWithStem("unsuccessful_psk_changes") # {}) <=> (a.failures # <<>>)
           /\ Cardinality(WrittenWithStem("successful_psk_changes")) <= 1
           /\ Cardinality(WrittenWithStem("unsuccessful_psk_changes")) <= 1
           /\ written \subseteq DOMAIN files
           /\ runs = 1 => written = DOMAIN files
           /\ (a.successes = <<>> /\ a.failures = <<>>) => written = {}
           /\ \A p \in WrittenWithStem("successful_psk_changes") : JsonLoad(files[p]) = Some(a.successes)
           /\ \A p \in WrittenWithStem("unsuccessful_psk_changes") : JsonLoad(files[p]) = Some(a.failures)

\* generate_reports ran on a two-element success list and an empty failure
\* list and wrote one file
C7_Witness ==
    /\ ReportsRan
    /\ Len(report_args[1].successes) = 2
    /\ report_args[1].successes[1] # report_args[1].successes[2]
    /\ report_args[1].failures = <<>>
    /\ Cardinality(DOMAIN files) = 1

\* C8 as stated: generate_reports returns an absent path for each report
\* file it did not write.
C8_AbsentPathWhenNotWritten ==
    ReportsRan =>
        \A i \in 1..2 : report_paths[1][i] \notin written => report_paths[1][i] = NoPath

\* C8, amended: generate_reports returns a present path for both report
\* files in every case, the success path and the failure path built from the
\* one timestamp of the call, whether or not it wrote the file.
C8_BothPathsAlwaysReturned ==
    ReportsRan =>
        /\ Len(report_paths[1]) = 2
        /\ \A i \in 1..2 : report_paths[1][i] # NoPath
        /\ report_paths[1][1].stem = "successful_psk_changes"
        /\ report_paths[1][2].stem = "unsuccessful_psk_changes"
        /\ report_paths[1][1].timestamp = clock
        /\ report_paths[1][2].timestamp = clock
        /\ written \subseteq {report_paths[1][1], report_paths[1][2]}

\* generate_reports ran on two empty lists, wrote nothing and returned
\* two paths
C8_Witness ==
    /\ ReportsRan
    /\ report_args[1].successes = <<>>
    /\ report_args[1].failures = <<>>
    /\ written = {}
    /\ report_paths # Nothing

MutatingApis == {"updateNetworkWirelessSsid", "updateNetworkApplianceSsid", "updateNetworkAppliance"}

\* the command took the update-by-name branch on a network none of whose
\* SSIDs has exactly the given name (an update leaves the names alone)
ByNameRequest ==
    /\ cmd = "update_ssid_psk"
    /\ args # Nothing
    /\ args[1].ssid_name # None
    /\ args[1].ssid_number = NoNumber
NameAbsent == \A k \in 1..Len(ssids) : ssids[k].name # args[1].ssid_name
Printed(line) == \E k \in 1..Len(out) : out[k] = line

\* C9: update-by-name on a network whose SSID list has no SSID with exactly
\* the given name issues no SSID update call and leaves every psk as it was.
C9_NoMutatingCallWhenNameAbsent ==
    (ByNameRequest /\ NameAbsent) =>
        /\ \A k \in 1..Len(calls) : calls[k].api \notin MutatingApis
        /\ \A k \in 1..Len(ssids) : ssids[k].psk = "old"

\* a wireless update-by-name for "Guest" whose SSID list was read and holds
\* "guest" but not "Guest"
C9_Witness ==
    /\ ByNameRequest /\ NameAbsent
    /\ args[1].ssid_name = "Guest"
    /\ args[1].network_type = "mrw"
    /\ \E k \in 1..Len(ssids) : ssids[k].name = "guest"
    /\ \E k \in 1..Len(calls) : calls[k].api = "getNetworkWirelessSsids" /\ ~calls[k].raised

\* C10 as stated: update-by-name on a network without an SSID of that name
\* ends as a hard failure: the Not-Found condition reaches the caller of
\* update_ssid_psk_by_name_for_network and the command does not print
\* 'PSK updated successfully'.
C10_NotFoundIsHardFailure ==
    (ByNameRequest /\ NameAbsent /\ pc = "done") =>
        /\ caught # None
        /\ ~Printed("PSK updated successfully")

SsidCmdDone == cmd = "update_ssid_psk" /\ pc = "done" /\ args # Nothing
SupportedType == args[1].network_type \in {"mrw", "mxw"}
NoCallRaised == \A k \in 1..Len(calls) : ~calls[k].raised
UpdateCalls == SelectSeq(calls, LAMBDA call : call.api \in MutatingApis)
ListReadApis == {"getNetworkWirelessSsids", "getNetworkApplianceSsids"}
SlotReadApis == {"getNetworkWirelessSsid", "getNetworkApplianceSsid", "getApplianceWireless"}

\* the command took an update-by-number branch on a slot the network has
ByNumRequest ==
    /\ SsidCmdDone
    /\ args[1].ssid_number # NoNumber
    /\ SlotExists(ssids, args[1].ssid_number)

\* C11 as stated: update_ssid_psk_by_num, for 'mrw' and for 'mxw', issues one
\* PSK update call to the given slot, then one read of that slot, and returns
\* the result of the read: the slot's name and number after the write.
C11_UpdateThenReadBack ==
    (ByNumRequest /\ SupportedType /\ NoCallRaised) =>
        /\ Len(calls) = 2
        /\ calls[1].api \in MutatingApis
        /\ calls[1].number = args[1].ssid_number
        /\ calls[1].psk = args[1].psk
        /\ calls[2].api \in SlotReadApis
        /\ calls[2].number = args[1].ssid_number
        /\ details # Nothing
        /\ details[1] = ssids[SlotOf(ssids, args[1].ssid_number)]
        /\ details[1].psk = args[1].psk

NamePresent == \E k \in 1..Len(ssids) : ssids[k].name = args[1].ssid_name

\* C12 as stated: update-by-name on a network that has an SSID with exactly
\* the given name, for 'mrw' and for 'mxw', issues exactly one PSK update
\* call, at the slot of that SSID, and the post-update SSID details are
\* returned to the caller.
C12_ByNameDelegatesAndReturnsDetails ==
    (ByNameRequest /\ NamePresent /\ pc = "done" /\ SupportedType /\ NoCallRaised) =>
        /\ Len(UpdateCalls) = 1
        /\ UpdateCalls[1].number = FirstNamed(ssids, args[1].ssid_name, 1)
        /\ details # Nothing

\* C17 as stated: with both an SSID name and an SSID number supplied, the
\* update is made by number: exactly one by-index update call, at the
\* supplied number, and no read of the SSID list.
C17_BothGivenUpdatesByNumber ==
    (SsidCmdDone /\ args[1].ssid_name # None /\ args[1].ssid_number # NoNumber /\ SupportedType) =>
        /\ Len(UpdateCalls) = 1
        /\ UpdateCalls[1].number = args[1].ssid_number
        /\ \A k \in 1..Len(calls) : calls[k].api \notin ListReadApis

ScanCmd == cmd = "update_ssid_psk_by_name_for_all_networks"
ScanWarning == "Warning: SSID not found in any network. No PSK updates were made."
MutatingCallsTo(id) == SelectSeq(calls, LAMBDA call : call.api \in MutatingApis /\ call.net = id)

\* C13: in the fleet-wide update-by-name scan a network whose SSID list has
\* no SSID with the given name gets no update call and does not end the scan
\* (a scan ends early only on a dashboard call that raised, and a scan that
\* reaches its end has visited every network); at the end of the scan the
\* 'not found in any network' warning is printed if and only if no network
\* was updated.
C13_ScanSkipsMisses ==
    ScanCmd =>
        /\ \A k \in 1..Len(scan_log) :
              ~scan_log[k].hasName =>
                  /\ MutatingCallsTo(scan_log[k].net) = <<>>
                  /\ ~scan_log[k].updated
        /\ pc = "raised" => calls[Len(calls)].raised
        /\ pc = "done" =>
              /\ [k \in 1..Len(scan_log) |-> scan_log[k].net] = IdsOf(all_networks)
              /\ Printed(ScanWarning) <=> (\A k \in 1..Len(scan_log) : ~scan_log[k].updated)

\* a finished wireless scan in which a network without the SSID was skipped
\* and the network after it was updated
C13_Witness ==
    /\ ScanCmd
    /\ pc = "done"
    /\ args[1].network_type = "mrw"
    /\ \E k \in 1..(Len(scan_log) - 1) :
          /\ ~scan_log[k].hasName
          /\ scan_log[k + 1].updated
          /\ MutatingCallsTo(scan_log[k + 1].net) # <<>>
    /\ ~Printed(ScanWarning)

\* C14: in run_psk_change, when a Webex call made by send_webex_message
\* raises, the error stays inside send_webex_message: the command goes on to
\* its normal end, and the outcome lists the bulk update returned, the report
\* paths and the report files are left as they were.
C14_SendErrorIsContained ==
    [][(pc = "notify" /\ messages' # messages /\ messages'[Len(messages')].raised) =>
          /\ pc' = "done"
          /\ ret' = ret
          /\ mr_successful_updates' = mr_successful_updates
          /\ mx_successful_updates' = mx_successful_updates
          /\ mr_failed_updates' = mr_failed_updates
          /\ mx_failed_updates' = mx_failed_updates
          /\ files' = files
          /\ written' = written
          /\ report_paths' = report_paths]_vars

\* a bulk run that wrote reports, whose notification raised, and that ended
\* normally
C14_Witness ==
    /\ BulkCmd
    /\ pc = "done"
    /\ send_webex_message
    /\ messages # <<>>
    /\ messages[Len(messages)].raised
    /\ DOMAIN files # {}
    /\ ret # Nothing

LastValidation(log) == log[Len(log)]

\* C15: a pass of the credential loop ensure_env_set leaves the loop only when
\* the validation function has just accepted the value the process environment
\* then holds for the variable; a prompted value the validation function
\* rejected is written neither to the environment nor to .env, and the loop
\* goes round again.
C15_EnsureWritesOnlyValidated ==
    [][(pc \in EnsureStages) =>
          /\ pc' # pc =>
                /\ LastValidation(validations').var = VarOf(pc)
                /\ LastValidation(validations').valid
                /\ LastValidation(validations').value = os_environ'[VarOf(pc)]
          /\ (prompts' > prompts /\ ~LastValidation(validations').valid) =>
                /\ os_environ' = os_environ
                /\ dotenv' = dotenv
                /\ pc' = pc
    ]_vars

\* the Meraki key loop has returned after rejecting a prompted key and
\* accepting the next one
C15_Witness ==
    /\ cmd \in CredCmds
    /\ pc \notin {"idle", "common_setup"}
    /\ Len(validations) >= 2
    /\ validations[1] = Validation("MERAKI_API_KEY", "bad", FALSE)
    /\ validations[2] = Validation("MERAKI_API_KEY", "good", TRUE)
    /\ prompts = 2
    /\ os_environ["MERAKI_API_KEY"] = "good"
    /\ dotenv["MERAKI_API_KEY"] = "good"

\* C16 as stated: a credential stored by set_env_var and not rewritten since
\* is the value the process environment holds, the value Config.get_instance()
\* holds, and the value held by the configuration object c that main.py,
\* meraki_api.py and webex_api.py read their keys and tokens from.
C16_SetEnvVarSeenByEveryReader ==
    \A n \in EnvNames :
        stored[n] # Unset =>
            /\ os_environ[n] = stored[n]
            /\ Config_instance[1].fields[n] = stored[n]
            /\ c[1].fields[n] = stored[n]

\* C19 as stated: every singleton is created and initialised at most once in
\* a process: one Config object, one Meraki dashboard client, one Webex client
\* of the bot, one WebexOps object.
C19_SingletonsInitialisedOnce ==
    /\ ConfigCount(Config_instance) <= 1
    /\ MerakiOps_instance # Nothing => MerakiOps_instance[1].dashboard <= 1
    /\ WebexBot_instance # Nothing => WebexBot_instance[1].api <= 1
    /\ WebexOps_created <= 1

BotTokenRejectedBefore ==
    \E k \in 1..Len(validations) :
        validations[k].var = "WEBEX_BOT_TOKEN" /\ ~validations[k].valid

\* C20 as stated: in the bot token loop, once a bot token has been rejected,
\* a valid token entered at the next prompt is accepted: it is stored and the
\* loop is left.
C20_ValidTokenAcceptedAfterRejection ==
    [][(/\ pc = "ensure_bot"
        /\ BotTokenRejectedBefore
        /\ prompts' > prompts
        /\ IsValid(LastValidation(validations').value)) =>
          /\ pc' # "ensure_bot"
          /\ os_environ'["WEBEX_BOT_TOKEN"] = LastValidation(validations').value
    ]_vars

\* C18 as stated: no call of generate_reports modifies or overwrites a
\* report file an earlier run wrote; every run that writes a file creates a
\* file of its own.
C18_ReportFilesNeverOverwritten ==
    [][(runs' > runs) =>
          /\ \A p \in DOMAIN files : p \in DOMAIN files' /\ files'[p] = files[p]
          /\ written' \cap DOMAIN files = {}
    ]_vars

\* C18, amended: a call of generate_reports leaves every report file written
\* at another clock second as it was, and the files it writes carry the second
\* of the call in their names; so runs made at different seconds each create
\* files of their own, while a run made within the same second as an earlier
\* one writes to the same file names and replaces that run's files.
C18_FilesOfOtherSecondsUntouched ==
    [][(runs' > runs) =>
          /\ \A p \in DOMAIN files :
                p.timestamp # clock' => (p \in DOMAIN files' /\ files'[p] = files[p])
          /\ \A p \in written' : p.timestamp = clock'
    ]_vars

\* two runs made at different seconds, each of which wrote a file that is
\* still there
C18_Witness ==
    /\ cmd = "generate_reports"
    /\ runs = 2
    /\ written # {}
    /\ \E p \in DOMAIN files, q \in DOMAIN files :
          /\ p.timestamp # q.timestamp
          /\ q \in written
          /\ p \notin written

AllUpdateCalls == SelectSeq(calls, LAMBDA call : call.api \in UpdateApis)
EntriesAbout(list, id, kind) == SelectSeq(list, LAMBDA e : e.id = id /\ e.kind = kind)
TagPairs ==
    Cardinality({k \in 1..Len(all_networks) : CarriesWirelessTag(all_networks[k])})
        + Cardinality({k \in 1..Len(all_networks) : CarriesApplianceTag(all_networks[k])})

\* C21: in the bulk update every update attempt has exactly one entry, in
\* exactly one of the two lists: in the success list when the update call
\* returned, in the failure list when it raised; there is no entry without an
\* attempt, and once the lists are returned their lengths add up to the
\* number of (network, matching tag) pairs of the enumerated list.
C21_OneEntryPerAttempt ==
    BulkCmd =>
        /\ Len(SuccessList) + Len(FailureList) = Len(AllUpdateCalls)
        /\ \A k \in 1..Len(AllUpdateCalls) :
              LET call == AllUpdateCalls[k]
                  inSuccess == Len(EntriesAbout(SuccessList, call.net, KindOf(call.api)))
                  inFailure == Len(EntriesAbout(FailureList, call.net, KindOf(call.api)))
              IN /\ inSuccess = (IF call.raised THEN 0 ELSE 1)
                 /\ inFailure = (IF call.raised THEN 1 ELSE 0)
        /\ BulkReturned =>
              /\ ret[1].successes = SuccessList
              /\ ret[1].failures = FailureList
              /\ Len(ret[1].successes) + Len(ret[1].failures) = TagPairs

\* a returned run over three (network, tag) pairs or more, one network
\* carrying both tags, with an attempt that raised and one that did not
C21_Witness ==
    /\ BulkReturned
    /\ TagPairs >= 3
    /\ \E k \in 1..Len(all_networks) :
          CarriesWirelessTag(all_networks[k]) /\ CarriesApplianceTag(all_networks[k])
    /\ ret[1].successes # <<>>
    /\ ret[1].failures # <<>>
    /\ \E k \in 1..Len(AllUpdateCalls) :
          AllUpdateCalls[k].raised /\ AllUpdateCalls[k].api = "updateNetworkApplianceSsid"

WirelessCallsTo(id) ==
    SelectSeq(calls, LAMBDA call : call.api = "updateNetworkWirelessSsid" /\ call.net = id)
ApplianceCallsTo(id) ==
    SelectSeq(calls, LAMBDA call : call.api = "updateNetworkApplianceSsid" /\ call.net = id)

OutcomeExists == ret # Nothing /\ (ret[1].successes # <<>> \/ ret[1].failures # <<>>)
NoGuestTag ==
    \A k \in 1..Len(all_networks) :
        ~CarriesWirelessTag(all_networks[k]) /\ ~CarriesApplianceTag(all_networks[k])

\* C23: in run_psk_change reports are generated only once the bulk update
\* has returned, and only when it returned at least one outcome; at the end
\* of the command a Webex message has been sent (messages.create was called,
\* whether or not it raised) if and only if notification was requested and
\* there is at least one outcome; with no guest-tagged
\* network no file is written and no message is sent, requested or not; and
\* every file attached to a message is a report file that is on disk.
C23_ReportsAndMessageOnlyWithOutcomes ==
    BulkCmd =>
        /\ (ReportsRan \/ DOMAIN files # {}) => (BulkReturned /\ OutcomeExists)
        /\ (BulkReturned /\ pc # "returned") => (ReportsRan <=> OutcomeExists)
        /\ messages # <<>> => (pc = "done" /\ ReportsRan /\ send_webex_message)
        /\ pc = "done" => (messages # <<>> <=> (send_webex_message /\ OutcomeExists))
        /\ NoGuestTag => (DOMAIN files = {} /\ messages = <<>>)
        /\ \A k \in 1..Len(messages) :
              messages[k].text = "Attached File" =>
                  /\ messages[k].file \in DOMAIN files
                  /\ messages[k].file \in {report_paths[1][1], report_paths[1][2]}

\* a finished run with notification requested whose updates all succeeded:
\* the success report was written and attached, the failure report was
\* neither written nor attached
C23_Witness ==
    /\ BulkCmd
    /\ pc = "done"
    /\ send_webex_message
    /\ ret[1].successes # <<>>
    /\ ret[1].failures = <<>>
    /\ Len(messages) = 2
    /\ messages[2].file = report_paths[1][1]
    /\ ~messages[2].raised
    /\ report_paths[1][2] \notin DOMAIN files

WebexRunCmd == cmd = "webex_run_meraki_psk_change"
SetupCallRaised == \E k \in 1..Len(webex_calls) : webex_calls[k].raised

\* C24 as stated: in webex_run_meraki_psk_change, when a notification set-up
\* call fails (the room creation inside create_room, or adding the user to
\* the room), the command still reaches run_psk_change: it does not end on an
\* error before the bulk update.
C24_SetupFailureDoesNotStopUpdate ==
    (WebexRunCmd /\ SetupCallRaised) => pc = "run_psk_change"

====
